---- MODULE Spec2Model ----
(***************************************************************************)
(* A model of the Shodan API client binding (package shodan, methods.go    *)
(* and routes/routes.go).  One call slot is one invocation of a method of  *)
(* Client: its frame (the named results `result` and `err`), the caller's  *)
(* context, and the HTTP exchange the request dispatcher runs for it.  A   *)
(* method is one action (validate, build the request, hand it to the       *)
(* dispatcher); the call then blocks at the network boundary until the     *)
(* server responds, the transport fails, or the context is cancelled.      *)
(*                                                                         *)
(* The dispatcher (Client.get, Client.request, Client.requestExploits),    *)
(* the parameter encoders (ToURLValues) and the model types live in other  *)
(* files of the package; they are modelled from the design document,       *)
(* sections 3, 4.1, 6 and 7.                                               *)
(***************************************************************************)
EXTENDS Integers, Sequences, FiniteSets, TLC

VARIABLES
    frame,    \* per call: the method's frame (pc and the named results)
    ctxDone,  \* per call: whether the caller-supplied context is cancelled
    exch,     \* per call: the dispatcher's exchange (request, destination, response)
    inv,      \* per call: which method was invoked, with what arguments (history)
    pkg,      \* the package-level error variables of methods.go
    client,   \* the Client: credential and origins
    earlier   \* how the calls already returned to the caller ended (history)

vars == <<frame, ctxDone, exch, inv, pkg, client, earlier>>

---------------------------------------------------------------------------
(* Bounds of the model *)

\* longest list handed to SubmitScan, DnsResolve, DnsReverse
MaxListLen == 2

\* largest page / size number handed to the paged methods
MaxPage == 1

---------------------------------------------------------------------------
(* Program constants *)

hostnamesLenLimit == 3575

ipsLenLimit == 3369

\* routes/routes.go: the two origins
ApiRoot == "https://api.shodan.io"

ApiExploits == "https://exploits.shodan.io/api"

\* routes/routes.go: a template is the sequence of its literal pieces, one %s
\* standing between two consecutive pieces; a route without a slot is a string.
routes_Search == "/search"

routes_Count == "/count"

ShodanHostView == <<"/shodan/host/", "">>

ShodanHostCount == "/shodan/host/count"

ShodanHostSearch == "/shodan/host/search"

ShodanHostSearchTokens == "/shodan/host/search/tokens"

ShodanPorts == "/shodan/ports"

ShodanServices == "/shodan/services"

ShodanProtocols == "/shodan/protocols"

ShodanScan == "/shodan/scan"

ShodanScans == "/shodan/scans"

ShodanScanView == <<"/shodan/scan/", "">>

ShodanScanInternet == "/shodan/scan/internet"

ShodanQuery == "/shodan/query"

ShodanQuerySearch == "/shodan/query/search"

ShodanQueryTags == "/shodan/query/tags"

ShodanAlert == "/shodan/alert"

ShodanAlertInfo == "/shodan/alert/info"

ShodanAlertId == <<"/shodan/alert/", "">>

ShodanAlertIdInfo == <<"/shodan/alert/", "/info">>

ShodanAlertTriggers == "/shodan/alert/triggers"

ShodanAlertTriggerAction == <<"/shodan/alert/", "/trigger/", "">>

ShodanAlertTriggerNotificationAction == <<"/shodan/alert/", "/trigger/", "/ignore/", "">>

ShodanData == "/shodan/data"

ShodanDataset == <<"/shodan/data/", "">>

routes_Org == "/org"

OrgMember == <<"/org/member/", "">>

routes_AccountProfile == "/account/profile"

routes_DnsResolve == "/dns/resolve"

routes_DnsReverse == "/dns/reverse"

ToolsHTTPHeaders == "/tools/httpheaders"

ToolsMyIP == "/tools/myip"

routes_ApiInfo == "/api-info"

LabsHoneyscore == <<"/labs/honeyscore/", "">>

\* routes.DnsDomain is used by methods.go and absent from routes/routes.go: a
\* template with one slot, for the domain
routes_DnsDomain == <<"/dns/domain/", "">>

---------------------------------------------------------------------------
(* Strings, slices and url.Values *)

\* fmt.Sprintf(format, a...) for a format whose only verbs are %s
RECURSIVE Sprintf(_, _)
Sprintf(format, a) ==
    IF Len(format) = 1 THEN format[1]
    ELSE format[1] \o a[1] \o Sprintf(Tail(format), Tail(a))

\* strings.Join(elems, sep)
RECURSIVE Join(_, _)
Join(elems, sep) ==
    IF Len(elems) = 0 THEN ""
    ELSE IF Len(elems) = 1 THEN elems[1]
    ELSE elems[1] \o sep \o Join(Tail(elems), sep)

\* a string of n copies of s
RECURSIVE Repeat(_, _)
Repeat(s, n) ==
    IF n = 0 THEN ""
    ELSE LET h == Repeat(s, n \div 2)
         IN  IF n % 2 = 1 THEN h \o h \o s ELSE h \o h

\* a Go slice of strings: nil, or its elements
NilSlice == [isNil |-> TRUE, elems |-> <<>>]

Slice(elems) == [isNil |-> FALSE, elems |-> elems]

\* make(url.Values), and the nil map the methods pass for "no parameters"
EmptyValues == [k \in {} |-> <<>>]

\* url.Values.Set(key, value)
Set(values, key, value) ==
    [k \in DOMAIN values \cup {key} |-> IF k = key THEN <<value>> ELSE values[k]]

\* url.Values.Add(key, value)
Add(values, key, value) ==
    [k \in DOMAIN values \cup {key} |->
        IF k = key
        THEN (IF key \in DOMAIN values THEN values[key] ELSE <<>>) \o <<value>>
        ELSE values[k]]

\* the keys the methods and the dispatcher ever set, in the sorted order
\* url.Values.Encode emits them
KeyOrder ==
    <<"facets", "force", "history", "hostnames", "ips", "key", "notify", "order",
      "page", "port", "protocol", "query", "size", "sort">>

\* url.Values.Encode(): the key=value pairs, sorted by key, each key's values in
\* the order they were added
RECURSIVE EncodeFrom(_, _)
EncodeFrom(values, i) ==
    IF i > Len(KeyOrder) THEN <<>>
    ELSE LET k == KeyOrder[i]
             here == IF k \in DOMAIN values
                     THEN [j \in 1..Len(values[k]) |-> <<k, values[k][j]>>]
                     ELSE <<>>
         IN  here \o EncodeFrom(values, i + 1)

Encode(values) == EncodeFrom(values, 1)

\* fmt.Sprint of an unsigned number: its decimal digits
Digit(d) ==
    CASE d = 0 -> "0" [] d = 1 -> "1" [] d = 2 -> "2" [] d = 3 -> "3" [] d = 4 -> "4"
      [] d = 5 -> "5" [] d = 6 -> "6" [] d = 7 -> "7" [] d = 8 -> "8" [] OTHER -> "9"

RECURSIVE Sprint(_)
Sprint(n) == IF n < 10 THEN Digit(n) ELSE Sprint(n \div 10) \o Digit(n % 10)

---------------------------------------------------------------------------
(* Errors, results and JSON *)

\* the nil error
NilErr == [class |-> "nil", msg |-> "", status |-> 0, cause |-> ""]

\* errors.New(text) in a method: an error raised locally, before any network
\* call (the taxonomy's Validation class)
errors_New(text) == [class |-> "Validation", msg |-> text, status |-> 0, cause |-> ""]

\* the dispatcher's three classes of failure
TransportErr(cause) ==
    [class |-> "Transport", msg |-> "request failed", status |-> 0, cause |-> cause]

APIErr(status, msg) == [class |-> "API", msg |-> msg, status |-> status, cause |-> ""]

DecodeErr(cause) ==
    [class |-> "Decode", msg |-> "cannot decode response", status |-> 0, cause |-> cause]

\* the zero value of a result type, and a value decoded from a JSON document
ZeroValue == [kind |-> "zero", items |-> <<>>]

\* response bodies the stub server sends
BodyHost == "{\"ip\":\"1.2.3.4\"}"

BodyErrorEnvelope == "{\"error\":\"Invalid API key\"}"

BodyArray == "[80,443]"

BodyString == "\"1.2.3.4\""

BodyNumber == "0.5"

BodyHTML == "<html>Bad Gateway</html>"

Bodies == {BodyHost, BodyErrorEnvelope, BodyArray, BodyString, BodyNumber, BodyHTML}

\* the JSON document a body holds: its kind and its members (key, value), or
\* "invalid" when the body is not JSON
ParseJSON(body) ==
    CASE body = BodyHost -> [kind |-> "object", items |-> << <<"ip", "1.2.3.4">> >>]
      [] body = BodyErrorEnvelope ->
            [kind |-> "object", items |-> << <<"error", "Invalid API key">> >>]
      [] body = BodyArray -> [kind |-> "array", items |-> << <<"0", "80">>, <<"1", "443">> >>]
      [] body = BodyString -> [kind |-> "string", items |-> << <<"", "1.2.3.4">> >>]
      [] body = BodyNumber -> [kind |-> "number", items |-> << <<"", "0.5">> >>]
      [] OTHER -> [kind |-> "invalid", items |-> <<>>]

\* whether a JSON document of this kind decodes into a destination of this shape
Matches(kind, shape) ==
    \/ shape = "Any" /\ kind # "invalid"
    \/ shape \in {"Record", "Mapping"} /\ kind = "object"
    \/ shape = "Sequence" /\ kind = "array"
    \/ shape = "String" /\ kind = "string"
    \/ shape = "Number" /\ kind = "number"

\* the value of member `key` of a JSON object, "" when it has none
RECURSIVE Member(_, _)
Member(items, key) ==
    IF items = <<>> THEN ""
    ELSE IF items[1][1] = key THEN items[1][2]
    ELSE Member(Tail(items), key)

HasMember(items, key) == \E i \in 1..Len(items) : items[i][1] = key

\* the message of an API error: the envelope's `error` member when the body is
\* a JSON object that has one, the raw body otherwise
ErrorMessage(body) ==
    LET doc == ParseJSON(body)
    IN  IF doc.kind = "object" /\ HasMember(doc.items, "error")
        THEN Member(doc.items, "error")
        ELSE body

---------------------------------------------------------------------------
(* State *)

\* the context a method hands to the dispatcher: the caller's
CallerCtx == "ctx"

\* &result: a pointer to the named result of call c's frame, of the given shape
AddrOf(c, shape) == [ptr |-> TRUE, addr |-> c, shape |-> shape]

\* result: the named result of call c's frame passed by value (a copy)
ValueOf(c, shape) == [ptr |-> FALSE, addr |-> c, shape |-> shape]

NoBody == [present |-> FALSE, content |-> <<>>]

\* strings.NewReader / bytes.NewReader over an encoded payload
NewReader(content) == [present |-> TRUE, content |-> content]

NoRequest ==
    [origin |-> "", verb |-> "", path |-> "", query |-> <<>>, body |-> NoBody,
     header |-> EmptyValues]

NoResponse == [status |-> 0, body |-> ""]

FreshFrame == [pc |-> "idle", result |-> ZeroValue, err |-> NilErr, writes |-> 0]

FreshExchange ==
    [n |-> 0, queryParams |-> EmptyValues, req |-> NoRequest, dest |-> AddrOf(0, "none"), ctx |-> "none",
     resp |-> NoResponse]

FreshInvocation == [method |-> "", ids |-> <<>>, list |-> NilSlice, flag |-> FALSE]

\* the state after NewClient, with the call slots S idle
InitOn(S) ==
    /\ frame = [c \in S |-> FreshFrame]
    /\ ctxDone = [c \in S |-> FALSE]
    /\ exch = [c \in S |-> FreshExchange]
    /\ inv = [c \in S |-> FreshInvocation]
    /\ pkg = [errEmptyParams |-> errors_New("empty parameters"),
              errEmptyAlertID |-> errors_New("empty alert id"),
              errEmptyTriggerName |-> errors_New("empty trigger name"),
              errEmptyService |-> errors_New("empty service"),
              errEmptyUsername |-> errors_New("empty username"),
              errBigRequest |-> errors_New("request is too big")]
    /\ client = [apiKey |-> "SECRET",
                 origins |-> [main |-> ApiRoot, exploits |-> ApiExploits]]
    /\ earlier = {}

Slots == DOMAIN frame

---------------------------------------------------------------------------
(* The request dispatcher *)

\* the return of a method that drops the error: `_ = <e>; return`
ReturnsDroppingErr(f, c, e) == [f EXCEPT ![c].pc = "done"]

\* a method's last two statements, `err = <e>; return`, on the frames f: e is
\* the local validation error, or what the dispatcher returned
Returns(f, c, e) == [f EXCEPT ![c].pc = "done", ![c].err = e]

\* the dispatcher watches the context it was handed
Cancelled(c) == exch[c].ctx = CallerCtx /\ ctxDone[c]

\* the exchange after one more request was issued on it: the final URL carries
\* the credential in the query string, for every verb and both origins; the
\* body and the headers go out as the method built them
Issued(e, ctx, origin, verb, path, queryParams, body, headers, decodeDestination) ==
    [n |-> e.n + 1,
     queryParams |-> queryParams,
     req |-> [origin |-> client.origins[origin], verb |-> verb, path |-> path,
              query |-> Encode(Add(queryParams, "key", client.apiKey)),
              body |-> body, header |-> headers],
     dest |-> decodeDestination, ctx |-> ctx, resp |-> NoResponse]

\* dispatch, up to the network boundary: build the request and issue the one
\* HTTP exchange; the call then waits for the transport
dispatch(c, ctx, origin, verb, path, queryParams, body, headers, decodeDestination) ==
    /\ exch' = [exch EXCEPT ![c] =
                  Issued(@, ctx, origin, verb, path, queryParams, body, headers,
                         decodeDestination)]
    /\ frame' = [frame EXCEPT ![c].pc = "inflight"]
    /\ UNCHANGED <<ctxDone, pkg, client, earlier>>

\* Client.request: the main origin
request(c, ctx, method, route, params, body, header, result) ==
    dispatch(c, ctx, "main", method, route, params, body, header, result)

\* Client.requestExploits: the exploits origin
requestExploits(c, ctx, method, route, params, body, header, result) ==
    dispatch(c, ctx, "exploits", method, route, params, body, header, result)

\* Client.get: a GET on the main origin without body or headers
get(c, ctx, route, params, result) ==
    request(c, ctx, "GET", route, params, NoBody, EmptyValues, result)

\* dispatch, from the response on: classify the status, decode a 2xx body into
\* the destination (one write, only on success).  A destination handed over by
\* value is a copy of the caller's result: the JSON decoder refuses it, and
\* nothing the dispatcher does can reach the caller's variable.
Respond(c, status, body) ==
    /\ frame[c].pc = "inflight"
    /\ ~Cancelled(c)
    /\ LET dest == exch[c].dest
           doc == ParseJSON(body)
       IN  frame' =
             IF status < 200 \/ status > 299
             THEN Returns(frame, c, APIErr(status, ErrorMessage(body)))
             ELSE IF ~dest.ptr
             THEN Returns(frame, c, DecodeErr("non-pointer destination"))
             ELSE IF ~Matches(doc.kind, dest.shape)
             THEN Returns(frame, c, DecodeErr("body does not match the destination"))
             ELSE Returns([frame EXCEPT ![dest.addr].result =
                                           [kind |-> doc.kind, items |-> doc.items],
                                        ![dest.addr].writes = @ + 1],
                          c, NilErr)
    /\ exch' = [exch EXCEPT ![c].resp = [status |-> status, body |-> body]]
    /\ UNCHANGED <<ctxDone, inv, pkg, client, earlier>>

\* a transport-level failure (DNS, connection refused, TLS)
TransportFail(c) ==
    /\ frame[c].pc = "inflight"
    /\ ~Cancelled(c)
    /\ frame' = Returns(frame, c, TransportErr("connection refused"))
    /\ UNCHANGED <<ctxDone, exch, inv, pkg, client, earlier>>

\* the dispatcher sees its context cancelled and aborts the pending exchange
Abort(c) ==
    /\ frame[c].pc = "inflight"
    /\ Cancelled(c)
    /\ frame' = Returns(frame, c, TransportErr("context canceled"))
    /\ UNCHANGED <<ctxDone, exch, inv, pkg, client, earlier>>

---------------------------------------------------------------------------
(* The caller *)

\* the caller cancels the context of a call it has not got back yet
Cancel(c) ==
    /\ frame[c].pc \in {"idle", "inflight"}
    /\ ~ctxDone[c]
    /\ ctxDone' = [ctxDone EXCEPT ![c] = TRUE]
    /\ UNCHANGED <<frame, exch, inv, pkg, client, earlier>>

\* the caller takes the results; the slot is free for its next call
Finish(c) ==
    /\ frame[c].pc = "done"
    /\ frame' = [frame EXCEPT ![c] = FreshFrame]
    /\ ctxDone' = [ctxDone EXCEPT ![c] = FALSE]
    /\ exch' = [exch EXCEPT ![c] = FreshExchange]
    /\ inv' = [inv EXCEPT ![c] = FreshInvocation]
    /\ earlier' = earlier \cup {frame[c].err.class}
    /\ UNCHANGED <<pkg, client>>

---------------------------------------------------------------------------
(* The methods of Client (methods.go) *)

\* a method is entered on an idle slot; the invocation is remembered
Enter(c, method, ids, list, flag) ==
    /\ frame[c].pc = "idle"
    /\ inv' = [inv EXCEPT ![c] =
                 [method |-> method, ids |-> ids, list |-> list, flag |-> flag]]

\* `err = e; return` before any dispatch
Fail(c, e) ==
    /\ frame' = Returns(frame, c, e)
    /\ UNCHANGED <<ctxDone, exch, pkg, client, earlier>>

\* search.HostParams, search.Params, search.ExploitParams: a typed filter
\* description, held with the query values its encoder produces for it
ToURLValues(params) == params.values

\* Host returns all services that have been found on the given host IP
Host(c, params) ==
    /\ Enter(c, "Host", <<params.IP>>, NilSlice, FALSE)
    /\ LET route == Sprintf(ShodanHostView, <<params.IP>>)
       IN  get(c, CallerCtx, route, ToURLValues(params), AddrOf(c, "Record"))

\* Count as it would be handing the dispatcher context.Background()
CountBackground(c, params) ==
    /\ Enter(c, "Count", <<>>, NilSlice, FALSE)
    /\ get(c, "background", ShodanHostCount, ToURLValues(params), AddrOf(c, "Record"))

\* Count searches Shodan without results
Count(c, params) ==
    /\ Enter(c, "Count", <<>>, NilSlice, FALSE)
    /\ get(c, CallerCtx, ShodanHostCount, ToURLValues(params), AddrOf(c, "Record"))

\* Search as it would be if a rejected call cleared the client's credential
SearchClearingKey(c, params) ==
    /\ Enter(c, "Search", <<>>, NilSlice, FALSE)
    /\ LET values == ToURLValues(params)
       IN  IF Cardinality(DOMAIN values) = 0
           THEN /\ frame' = Returns(frame, c, pkg.errEmptyParams)
                /\ client' = [client EXCEPT !.apiKey = ""]
                /\ UNCHANGED <<ctxDone, exch, pkg, earlier>>
           ELSE get(c, CallerCtx, ShodanHostSearch, values, AddrOf(c, "Record"))

\* Search using the same query syntax as the website
Search(c, params) ==
    /\ Enter(c, "Search", <<>>, NilSlice, FALSE)
    /\ LET values == ToURLValues(params)
       IN  IF Cardinality(DOMAIN values) = 0
           THEN Fail(c, pkg.errEmptyParams)
           ELSE get(c, CallerCtx, ShodanHostSearch, values, AddrOf(c, "Record"))

\* SearchTokens allows to break the search query into tokens
SearchTokens(c, params) ==
    /\ Enter(c, "SearchTokens", <<>>, NilSlice, FALSE)
    /\ LET values == ToURLValues(params)
       IN  IF Cardinality(DOMAIN values) = 0
           THEN Fail(c, pkg.errEmptyParams)
           ELSE get(c, CallerCtx, ShodanHostSearchTokens, values, AddrOf(c, "Record"))

\* Ports returns a list of port numbers that the crawlers are looking for
Ports(c) ==
    /\ Enter(c, "Ports", <<>>, NilSlice, FALSE)
    /\ get(c, CallerCtx, ShodanPorts, EmptyValues, AddrOf(c, "Sequence"))

\* Protocols returns a map containing all the protocols
Protocols(c) ==
    /\ Enter(c, "Protocols", <<>>, NilSlice, FALSE)
    /\ get(c, CallerCtx, ShodanProtocols, EmptyValues, AddrOf(c, "Mapping"))

\* Services returns a map containing all the services Shodan can detect
Services(c) ==
    /\ Enter(c, "Services", <<>>, NilSlice, FALSE)
    /\ get(c, CallerCtx, ShodanServices, EmptyValues, AddrOf(c, "Mapping"))

\* the form header of SubmitScan and ScanInternet
FormHeader == Set(EmptyValues, "Content-Type", "application/x-www-form-urlencoded")

\* SubmitScan as it would be with the credential written into the form
SubmitScanKeyInBody(c, ips, force) ==
    /\ Enter(c, "SubmitScan", <<>>, ips, force)
    /\ IF ips.isNil \/ Len(ips.elems) = 0
       THEN Fail(c, pkg.errEmptyParams)
       ELSE LET p1 == Set(EmptyValues, "ips", Join(ips.elems, ","))
                p2 == IF force THEN Set(p1, "force", "true") ELSE p1
                params == Set(p2, "key", client.apiKey)
                body == NewReader(Encode(params))
            IN  request(c, CallerCtx, "POST", ShodanScan, EmptyValues, body, FormHeader,
                        AddrOf(c, "Record"))

\* SubmitScan as it would be with one request per address of the list
SubmitScanEachIP(c, ips, force) ==
    /\ Enter(c, "SubmitScan", <<>>, ips, force)
    /\ IF ips.isNil \/ Len(ips.elems) = 0
       THEN Fail(c, pkg.errEmptyParams)
       ELSE LET p1 == Set(EmptyValues, "ips", ips.elems[Len(ips.elems)])
                params == IF force THEN Set(p1, "force", "true") ELSE p1
                body == NewReader(Encode(params))
            IN  /\ exch' = [exch EXCEPT ![c] =
                              [Issued(@, CallerCtx, "main", "POST", ShodanScan,
                                      EmptyValues, body, FormHeader, AddrOf(c, "Record"))
                                 EXCEPT !.n = Len(ips.elems)]]
                /\ frame' = [frame EXCEPT ![c].pc = "inflight"]
                /\ UNCHANGED <<ctxDone, pkg, client, earlier>>

\* SubmitScan requests Shodan to crawl an IP/netblock
SubmitScan(c, ips, force) ==
    /\ Enter(c, "SubmitScan", <<>>, ips, force)
    /\ IF ips.isNil \/ Len(ips.elems) = 0
       THEN Fail(c, pkg.errEmptyParams)
       ELSE LET p1 == Set(EmptyValues, "ips", Join(ips.elems, ","))
                params == IF force THEN Set(p1, "force", "true") ELSE p1
                body == NewReader(Encode(params))
            IN  request(c, CallerCtx, "POST", ShodanScan, EmptyValues, body, FormHeader,
                        AddrOf(c, "Record"))

\* ListScans returns a list of all your scans
ListScans(c, page) ==
    /\ Enter(c, "ListScans", <<>>, NilSlice, FALSE)
    /\ LET params == IF page < 1
                     THEN Set(EmptyValues, "page", "1")
                     ELSE Set(EmptyValues, "page", Sprint(page))
       IN  get(c, CallerCtx, ShodanScans, params, AddrOf(c, "Record"))

\* GetScan as it would be if the empty scanID returned without setting err
GetScanSilent(c, scanID) ==
    /\ Enter(c, "GetScan", <<scanID>>, NilSlice, FALSE)
    /\ IF scanID = ""
       THEN Fail(c, NilErr)
       ELSE LET route == Sprintf(ShodanScanView, <<scanID>>)
            IN  request(c, CallerCtx, "GET", route, EmptyValues, NoBody, EmptyValues,
                        AddrOf(c, "Record"))

\* GetScan checks the progress of a previously submitted scan request
GetScan(c, scanID) ==
    /\ Enter(c, "GetScan", <<scanID>>, NilSlice, FALSE)
    /\ IF scanID = ""
       THEN Fail(c, errors_New("empty scanID"))
       ELSE LET route == Sprintf(ShodanScanView, <<scanID>>)
            IN  request(c, CallerCtx, "GET", route, EmptyValues, NoBody, EmptyValues,
                        AddrOf(c, "Record"))

\* ScanInternet requests a crawl of the Internet for a port; it hands the
\* dispatcher `result`, not `&result`
ScanInternet(c, port, protocol) ==
    /\ Enter(c, "ScanInternet", <<>>, NilSlice, FALSE)
    /\ IF protocol = ""
       THEN Fail(c, errors_New("empty protocol"))
       ELSE LET params == Set(Set(EmptyValues, "port", Sprint(port)), "protocol", protocol)
                body == NewReader(Encode(params))
            IN  request(c, CallerCtx, "POST", ShodanScanInternet, EmptyValues, body,
                        FormHeader, ValueOf(c, "Record"))

\* QueryList obtains a list of search queries that users have saved
QueryList(c, page, sort, order) ==
    /\ Enter(c, "QueryList", <<>>, NilSlice, FALSE)
    /\ LET p1 == IF page > 0 THEN Set(EmptyValues, "page", Sprint(page)) ELSE EmptyValues
           p2 == IF sort # "" THEN Set(p1, "sort", sort) ELSE p1
           params == IF order # "" THEN Set(p2, "order", order) ELSE p2
       IN  get(c, CallerCtx, ShodanQuery, params, AddrOf(c, "Record"))

\* QuerySearch searches the directory of saved search queries
QuerySearch(c, query, page) ==
    /\ Enter(c, "QuerySearch", <<>>, NilSlice, FALSE)
    /\ IF query = ""
       THEN Fail(c, errors_New("empty search query"))
       ELSE LET p1 == Set(EmptyValues, "query", query)
                params == IF page > 0 THEN Set(p1, "page", Sprint(page)) ELSE p1
            IN  get(c, CallerCtx, ShodanQuerySearch, params, AddrOf(c, "Record"))

\* QueryTags obtains a list of popular tags for the saved search queries
QueryTags(c, size) ==
    /\ Enter(c, "QueryTags", <<>>, NilSlice, FALSE)
    /\ LET params == IF size > 0 THEN Set(EmptyValues, "size", Sprint(size)) ELSE EmptyValues
       IN  get(c, CallerCtx, ShodanQueryTags, params, AddrOf(c, "Record"))

\* Datasets lists the datasets that are available for download
Datasets(c) ==
    /\ Enter(c, "Datasets", <<>>, NilSlice, FALSE)
    /\ get(c, CallerCtx, ShodanData, EmptyValues, AddrOf(c, "Sequence"))

\* DatasetFiles lists the files of the provided dataset
DatasetFiles(c, dataset) ==
    /\ Enter(c, "DatasetFiles", <<dataset>>, NilSlice, FALSE)
    /\ IF dataset = ""
       THEN Fail(c, errors_New("empty dataset id"))
       ELSE LET route == Sprintf(ShodanDataset, <<dataset>>)
            IN  get(c, CallerCtx, route, EmptyValues, AddrOf(c, "Sequence"))

\* Org gets information about your organization
Org(c) ==
    /\ Enter(c, "Org", <<>>, NilSlice, FALSE)
    /\ get(c, CallerCtx, routes_Org, EmptyValues, AddrOf(c, "Record"))

\* AddOrgMember adds a Shodan user to the organization and upgrades them
AddOrgMember(c, username, notify) ==
    /\ Enter(c, "AddOrgMember", <<username>>, NilSlice, notify)
    /\ IF username = ""
       THEN Fail(c, pkg.errEmptyUsername)
       ELSE LET route == Sprintf(OrgMember, <<username>>)
                params == IF notify THEN Set(EmptyValues, "notify", "true") ELSE EmptyValues
            IN  request(c, CallerCtx, "PUT", route, params, NoBody, EmptyValues,
                        AddrOf(c, "Record"))

\* DeleteOrgMember removes and downgrades the provided member
DeleteOrgMember(c, username) ==
    /\ Enter(c, "DeleteOrgMember", <<username>>, NilSlice, FALSE)
    /\ IF username = ""
       THEN Fail(c, pkg.errEmptyUsername)
       ELSE LET route == Sprintf(OrgMember, <<username>>)
            IN  request(c, CallerCtx, "DELETE", route, EmptyValues, NoBody, EmptyValues,
                        AddrOf(c, "Record"))

\* AccountProfile returns information about the account linked to this API key
AccountProfile(c) ==
    /\ Enter(c, "AccountProfile", <<>>, NilSlice, FALSE)
    /\ get(c, CallerCtx, routes_AccountProfile, EmptyValues, AddrOf(c, "Record"))

\* DnsResolve as it would be decoding into one result shared by all calls
DnsResolveSharedResult(c, hostnames) ==
    /\ Enter(c, "DnsResolve", <<>>, hostnames, FALSE)
    /\ IF hostnames.isNil \/ Len(hostnames.elems) = 0
       THEN Fail(c, pkg.errEmptyParams)
       ELSE LET joined == Join(hostnames.elems, ",")
            IN  IF Len(joined) > hostnamesLenLimit
                THEN Fail(c, pkg.errBigRequest)
                ELSE get(c, CallerCtx, routes_DnsResolve,
                         Set(EmptyValues, "hostnames", joined), AddrOf(1, "Mapping"))

\* DnsResolve as it would be with the ceiling put on the number of hostnames
DnsResolveByCount(c, hostnames) ==
    /\ Enter(c, "DnsResolve", <<>>, hostnames, FALSE)
    /\ IF hostnames.isNil \/ Len(hostnames.elems) = 0
       THEN Fail(c, pkg.errEmptyParams)
       ELSE LET joined == Join(hostnames.elems, ",")
            IN  IF Len(hostnames.elems) > hostnamesLenLimit
                THEN Fail(c, pkg.errBigRequest)
                ELSE get(c, CallerCtx, routes_DnsResolve,
                         Set(EmptyValues, "hostnames", joined), AddrOf(c, "Mapping"))

\* DnsResolve looks up the IP address for the provided list of hostnames
DnsResolve(c, hostnames) ==
    /\ Enter(c, "DnsResolve", <<>>, hostnames, FALSE)
    /\ IF hostnames.isNil \/ Len(hostnames.elems) = 0
       THEN Fail(c, pkg.errEmptyParams)
       ELSE LET joined == Join(hostnames.elems, ",")
            IN  IF Len(joined) > hostnamesLenLimit
                THEN Fail(c, pkg.errBigRequest)
                ELSE get(c, CallerCtx, routes_DnsResolve,
                         Set(EmptyValues, "hostnames", joined), AddrOf(c, "Mapping"))

\* DnsReverse as it would be with the emptiness test on nil alone
DnsReverseNilOnly(c, ips) ==
    /\ Enter(c, "DnsReverse", <<>>, ips, FALSE)
    /\ IF ips.isNil
       THEN Fail(c, pkg.errEmptyParams)
       ELSE LET joined == Join(ips.elems, ",")
            IN  IF Len(joined) > ipsLenLimit
                THEN Fail(c, pkg.errBigRequest)
                ELSE get(c, CallerCtx, routes_DnsReverse,
                         Set(EmptyValues, "ips", joined), AddrOf(c, "Mapping"))

\* DnsReverse looks up the hostnames defined for the given list of IP addresses
DnsReverse(c, ips) ==
    /\ Enter(c, "DnsReverse", <<>>, ips, FALSE)
    /\ IF ips.isNil \/ Len(ips.elems) = 0
       THEN Fail(c, pkg.errEmptyParams)
       ELSE LET joined == Join(ips.elems, ",")
            IN  IF Len(joined) > ipsLenLimit
                THEN Fail(c, pkg.errBigRequest)
                ELSE get(c, CallerCtx, routes_DnsReverse,
                         Set(EmptyValues, "ips", joined), AddrOf(c, "Mapping"))

\* DnsDomain returns a collection of historical NS records for domain
DnsDomain(c, domain) ==
    /\ Enter(c, "DnsDomain", <<domain>>, NilSlice, FALSE)
    /\ IF domain = ""
       THEN Fail(c, errors_New("domain is required"))
       ELSE LET route == Sprintf(routes_DnsDomain, <<domain>>)
            IN  get(c, CallerCtx, route, EmptyValues, AddrOf(c, "Record"))

\* HttpHeaders shows the HTTP headers that your client sends
HttpHeaders(c) ==
    /\ Enter(c, "HttpHeaders", <<>>, NilSlice, FALSE)
    /\ get(c, CallerCtx, ToolsHTTPHeaders, EmptyValues, AddrOf(c, "Mapping"))

\* MyIP gets your current IP address as seen from the Internet
MyIP(c) ==
    /\ Enter(c, "MyIP", <<>>, NilSlice, FALSE)
    /\ get(c, CallerCtx, ToolsMyIP, EmptyValues, AddrOf(c, "String"))

\* ApiInfo returns information about the API plan of the API key
ApiInfo(c) ==
    /\ Enter(c, "ApiInfo", <<>>, NilSlice, FALSE)
    /\ get(c, CallerCtx, routes_ApiInfo, EmptyValues, AddrOf(c, "Record"))

\* Honeyscore calculates a honeypot probability score
Honeyscore(c, ip) ==
    /\ Enter(c, "Honeyscore", <<ip>>, NilSlice, FALSE)
    /\ IF ip = ""
       THEN Fail(c, errors_New("ip is required"))
       ELSE LET route == Sprintf(LabsHoneyscore, <<ip>>)
            IN  get(c, CallerCtx, route, EmptyValues, AddrOf(c, "Number"))

\* json.Marshal(alert): the members of the alert, and the error of the encoding
\* (an alert of plain strings always encodes)
json_Marshal(alert) ==
    [body |-> << <<"name", alert.Name>>, <<"ip", alert.IP>> >>, err |-> NilErr]

\* CreateAlert creates a network alert for a defined IP/netblock (it also
\* prints the encoded alert to standard output, which is no state of the client)
CreateAlert(c, alert) ==
    /\ Enter(c, "CreateAlert", <<>>, NilSlice, FALSE)
    /\ LET m == json_Marshal(alert)
       IN  IF m.err # NilErr
           THEN Fail(c, m.err)
           ELSE request(c, CallerCtx, "POST", ShodanAlert, EmptyValues, NewReader(m.body),
                        Set(EmptyValues, "Content-Type", "application/json"),
                        AddrOf(c, "Record"))

\* AlertInfo returns the information about a specific network alert
AlertInfo(c, alertID) ==
    /\ Enter(c, "AlertInfo", <<alertID>>, NilSlice, FALSE)
    /\ IF alertID = ""
       THEN Fail(c, pkg.errEmptyAlertID)
       ELSE LET route == Sprintf(ShodanAlertIdInfo, <<alertID>>)
            IN  get(c, CallerCtx, route, EmptyValues, AddrOf(c, "Record"))

\* DeleteAlert removes the specified network alert
DeleteAlert(c, alertID) ==
    /\ Enter(c, "DeleteAlert", <<alertID>>, NilSlice, FALSE)
    /\ IF alertID = ""
       THEN Fail(c, pkg.errEmptyAlertID)
       ELSE LET route == Sprintf(ShodanAlertId, <<alertID>>)
            IN  request(c, CallerCtx, "DELETE", route, EmptyValues, NoBody, EmptyValues,
                        AddrOf(c, "Any"))

\* ListAlerts lists the network alerts that are currently active on the account
ListAlerts(c) ==
    /\ Enter(c, "ListAlerts", <<>>, NilSlice, FALSE)
    /\ get(c, CallerCtx, ShodanAlertInfo, EmptyValues, AddrOf(c, "Sequence"))

\* ListTriggers lists the triggers that can be enabled on network alerts
ListTriggers(c) ==
    /\ Enter(c, "ListTriggers", <<>>, NilSlice, FALSE)
    /\ get(c, CallerCtx, ShodanAlertTriggers, EmptyValues, AddrOf(c, "Sequence"))

\* CreateAlertTrigger gets notifications when the specified trigger is met
CreateAlertTrigger(c, alertID, triggerName) ==
    /\ Enter(c, "CreateAlertTrigger", <<alertID, triggerName>>, NilSlice, FALSE)
    /\ IF alertID = ""
       THEN Fail(c, pkg.errEmptyAlertID)
       ELSE IF triggerName = ""
       THEN Fail(c, pkg.errEmptyTriggerName)
       ELSE LET route == Sprintf(ShodanAlertTriggerAction, <<alertID, triggerName>>)
            IN  request(c, CallerCtx, "PUT", route, EmptyValues, NoBody, EmptyValues,
                        AddrOf(c, "Record"))

\* DeleteAlertTrigger stops notifications for the specified trigger
DeleteAlertTrigger(c, alertID, triggerName) ==
    /\ Enter(c, "DeleteAlertTrigger", <<alertID, triggerName>>, NilSlice, FALSE)
    /\ IF alertID = ""
       THEN Fail(c, pkg.errEmptyAlertID)
       ELSE IF triggerName = ""
       THEN Fail(c, pkg.errEmptyTriggerName)
       ELSE LET route == Sprintf(ShodanAlertTriggerAction, <<alertID, triggerName>>)
            IN  request(c, CallerCtx, "DELETE", route, EmptyValues, NoBody, EmptyValues,
                        AddrOf(c, "Record"))

\* CreateTriggerIgnore ignores the specified service when it is matched for the trigger
CreateTriggerIgnore(c, alertID, triggerName, service) ==
    /\ Enter(c, "CreateTriggerIgnore", <<alertID, triggerName, service>>, NilSlice, FALSE)
    /\ IF alertID = ""
       THEN Fail(c, pkg.errEmptyAlertID)
       ELSE IF triggerName = ""
       THEN Fail(c, pkg.errEmptyTriggerName)
       ELSE IF service = ""
       THEN Fail(c, pkg.errEmptyService)
       ELSE LET route == Sprintf(ShodanAlertTriggerNotificationAction,
                                 <<alertID, triggerName, service>>)
            IN  request(c, CallerCtx, "PUT", route, EmptyValues, NoBody, EmptyValues,
                        AddrOf(c, "Record"))

\* DeleteTriggerIgnore enables notifications again for the specified trigger
DeleteTriggerIgnore(c, alertID, triggerName, service) ==
    /\ Enter(c, "DeleteTriggerIgnore", <<alertID, triggerName, service>>, NilSlice, FALSE)
    /\ IF alertID = ""
       THEN Fail(c, pkg.errEmptyAlertID)
       ELSE IF triggerName = ""
       THEN Fail(c, pkg.errEmptyTriggerName)
       ELSE IF service = ""
       THEN Fail(c, pkg.errEmptyService)
       ELSE LET route == Sprintf(ShodanAlertTriggerNotificationAction,
                                 <<alertID, triggerName, service>>)
            IN  request(c, CallerCtx, "DELETE", route, EmptyValues, NoBody, EmptyValues,
                        AddrOf(c, "Record"))

\* ExploitSearch searches across a variety of data sources for exploits
ExploitSearch(c, params) ==
    /\ Enter(c, "ExploitSearch", <<>>, NilSlice, FALSE)
    /\ LET values == ToURLValues(params)
       IN  IF Cardinality(DOMAIN values) = 0
           THEN Fail(c, pkg.errEmptyParams)
           ELSE requestExploits(c, CallerCtx, "GET", routes_Search, values, NoBody,
                                EmptyValues, AddrOf(c, "Record"))

\* ExploitCount behaves like ExploitSearch without returning any results
ExploitCount(c, params) ==
    /\ Enter(c, "ExploitCount", <<>>, NilSlice, FALSE)
    /\ LET values == ToURLValues(params)
       IN  IF Cardinality(DOMAIN values) = 0
           THEN Fail(c, pkg.errEmptyParams)
           ELSE requestExploits(c, CallerCtx, "GET", routes_Count, values, NoBody,
                                EmptyValues, AddrOf(c, "Record"))

---------------------------------------------------------------------------
(* Inputs *)

\* identifiers a caller supplies: empty, or not
Identifiers == {"", "1.2.3.4"}

\* every sequence over E of at most MaxListLen elements, as a non-nil slice, and nil
SlicesOver(E) ==
    {NilSlice} \cup {Slice(l) : l \in UNION {[1..n -> E] : n \in 0..MaxListLen}}

\* hostnames whose joined lengths fall on both sides of the hostnames ceiling
HostnameLists ==
    SlicesOver({"a.io", Repeat("h", 1787), Repeat("h", 1788), Repeat("h", 3575),
                Repeat("h", 3576)})

\* addresses whose joined lengths fall on both sides of the IPs ceiling
IPLists ==
    SlicesOver({"8.8.8.8", Repeat("9", 1684), Repeat("9", 1685), Repeat("9", 3369),
                Repeat("9", 3370)})

ScanLists == SlicesOver({"1.1.1.1", "8.8.8.0/24"})

HostParams ==
    {[IP |-> ip, values |-> v] :
        ip \in Identifiers, v \in {EmptyValues, Set(EmptyValues, "history", "true")}}

Params ==
    {[values |-> v] :
        v \in {EmptyValues, Set(EmptyValues, "query", "apache"),
               Set(Set(EmptyValues, "query", "apache"), "facets", "port")}}

Alerts == [Name : {"", "home"}, IP : {"", "1.2.3.4"}]

Pages == 0..MaxPage

Statuses == {200, 299, 300, 401}

---------------------------------------------------------------------------
(* Specifications *)

\* the call slots of the sequential client
CallSlots == {1}

Init == InitOn(CallSlots)

\* one method call of slot c
Call(c) ==
    \/ \E params \in HostParams : Host(c, params)
    \/ \E params \in Params : Count(c, params)
    \/ \E params \in Params : Search(c, params)
    \/ \E params \in Params : SearchTokens(c, params)
    \/ Ports(c)
    \/ Protocols(c)
    \/ Services(c)
    \/ \E ips \in ScanLists, force \in BOOLEAN : SubmitScan(c, ips, force)
    \/ \E page \in Pages : ListScans(c, page)
    \/ \E scanID \in Identifiers : GetScan(c, scanID)
    \/ \E port \in {0, 443}, protocol \in {"", "https"} : ScanInternet(c, port, protocol)
    \/ \E page \in Pages, sort \in {"", "votes"}, order \in {"", "asc"} :
          QueryList(c, page, sort, order)
    \/ \E query \in {"", "webcam"}, page \in Pages : QuerySearch(c, query, page)
    \/ \E size \in Pages : QueryTags(c, size)
    \/ Datasets(c)
    \/ \E dataset \in Identifiers : DatasetFiles(c, dataset)
    \/ Org(c)
    \/ \E username \in Identifiers, notify \in BOOLEAN : AddOrgMember(c, username, notify)
    \/ \E username \in Identifiers : DeleteOrgMember(c, username)
    \/ AccountProfile(c)
    \/ \E hostnames \in HostnameLists : DnsResolve(c, hostnames)
    \/ \E ips \in IPLists : DnsReverse(c, ips)
    \/ \E domain \in Identifiers : DnsDomain(c, domain)
    \/ HttpHeaders(c)
    \/ MyIP(c)
    \/ ApiInfo(c)
    \/ \E ip \in Identifiers : Honeyscore(c, ip)
    \/ \E alert \in Alerts : CreateAlert(c, alert)
    \/ \E alertID \in Identifiers : AlertInfo(c, alertID)
    \/ \E alertID \in Identifiers : DeleteAlert(c, alertID)
    \/ ListAlerts(c)
    \/ ListTriggers(c)
    \/ \E alertID \in Identifiers, triggerName \in Identifiers :
          CreateAlertTrigger(c, alertID, triggerName)
    \/ \E alertID \in Identifiers, triggerName \in Identifiers :
          DeleteAlertTrigger(c, alertID, triggerName)
    \/ \E alertID \in Identifiers, triggerName \in Identifiers, service \in Identifiers :
          CreateTriggerIgnore(c, alertID, triggerName, service)
    \/ \E alertID \in Identifiers, triggerName \in Identifiers, service \in Identifiers :
          DeleteTriggerIgnore(c, alertID, triggerName, service)
    \/ \E params \in Params : ExploitSearch(c, params)
    \/ \E params \in Params : ExploitCount(c, params)

Next ==
    \E c \in CallSlots :
        \/ Call(c)
        \/ \E status \in Statuses, body \in Bodies : Respond(c, status, body)
        \/ TransportFail(c)
        \/ Abort(c)
        \/ Cancel(c)
        \/ Finish(c)

Spec == Init /\ [][Next]_vars

\* the sequential client under the transport's promise to notice a cancelled
\* context: an exchange whose context is cancelled is eventually aborted
SpecLive == Spec /\ \A c \in CallSlots : WF_vars(Abort(c))

\* two calls issued concurrently on one Client
ConcSlots == {1, 2}

InitConc == InitOn(ConcSlots)

ConcCall(c) ==
    \/ \E hostnames \in {NilSlice, Slice(<<"a.io">>), Slice(<<Repeat("h", 3576)>>)} :
          DnsResolve(c, hostnames)
    \/ \E force \in BOOLEAN : SubmitScan(c, Slice(<<"1.1.1.1">>), force)
    \/ \E params \in HostParams : Host(c, params)
    \/ MyIP(c)

NextConc ==
    \E c \in ConcSlots :
        \/ ConcCall(c)
        \/ \E status \in {200, 401}, body \in {BodyHost, BodyErrorEnvelope, BodyString} :
              Respond(c, status, body)
        \/ TransportFail(c)
        \/ Abort(c)
        \/ Cancel(c)
        \/ Finish(c)

SpecConc == InitConc /\ [][NextConc]_vars

---------------------------------------------------------------------------
(* Properties *)

Entered(c) == frame[c].pc # "idle"

Done(c) == frame[c].pc = "done"

InFlight(c) == frame[c].pc = "inflight"

\* the length of the elements joined by a one-character separator, counted
\* from the elements
RECURSIVE JoinedLen(_)
JoinedLen(elems) ==
    IF Len(elems) = 0 THEN 0
    ELSE IF Len(elems) = 1 THEN Len(elems[1])
    ELSE JoinedLen(SubSeq(elems, 1, Len(elems) - 1)) + 1 + Len(elems[Len(elems)])

\* the elements joined by commas, built from the left
RECURSIVE CommaJoined(_)
CommaJoined(elems) ==
    IF Len(elems) = 1 THEN elems[1]
    ELSE CommaJoined(SubSeq(elems, 1, Len(elems) - 1)) \o "," \o elems[Len(elems)]

\* the values the query string carries for a key
QueryValues(query, key) == {query[i][2] : i \in {j \in 1..Len(query) : query[j][1] = key}}

NonEmptyList(c) == ~inv[c].list.isNil /\ Len(inv[c].list.elems) > 0

\* C1: one invocation of a method issues at most one HTTP exchange: exactly
\* one once local validation has passed, whatever the exchange's outcome
\* (success, transport error, non-2xx, decode error), and none when the call
\* failed local validation.
C1_OneExchangePerCall ==
    \A c \in Slots :
        /\ exch[c].n <= 1
        /\ InFlight(c) => exch[c].n = 1
        /\ Done(c) => (exch[c].n = 0 <=> frame[c].err.class = "Validation")
        /\ Done(c) /\ frame[c].err.class \in {"nil", "Transport", "API", "Decode"}
              => exch[c].n = 1

\* a SubmitScan of two addresses ended in an API error after its one exchange
C1_Witness ==
    \E c \in Slots :
        /\ Done(c) /\ inv[c].method = "SubmitScan" /\ Len(inv[c].list.elems) = 2
        /\ frame[c].err.class = "API" /\ exch[c].n = 1

\* C2: for a non-empty list, DnsResolve fails with "request is too big" and
\* without any exchange exactly when the comma-joined length exceeds 3575, and
\* DnsReverse exactly when it exceeds 3369; up to the ceiling (the ceiling
\* included) the call is dispatched with the joined string as the one value of
\* "hostnames" / "ips".
C2_BulkCeiling ==
    \A c \in Slots :
        Entered(c) /\ inv[c].method \in {"DnsResolve", "DnsReverse"} /\ NonEmptyList(c) =>
            LET elems == inv[c].list.elems
                ceiling == IF inv[c].method = "DnsResolve" THEN 3575 ELSE 3369
                key == IF inv[c].method = "DnsResolve" THEN "hostnames" ELSE "ips"
                tooBig == /\ Done(c)
                          /\ frame[c].err = errors_New("request is too big")
                          /\ exch[c].n = 0
            IN  /\ tooBig <=> JoinedLen(elems) > ceiling
                /\ JoinedLen(elems) <= ceiling =>
                      /\ exch[c].n = 1
                      /\ DOMAIN exch[c].queryParams = {key}
                      /\ exch[c].queryParams[key] = <<CommaJoined(elems)>>
                      /\ QueryValues(exch[c].req.query, key) = {CommaJoined(elems)}

\* two hostnames whose joined length is exactly 3575 were dispatched
C2_Witness ==
    \E c \in Slots :
        /\ inv[c].method = "DnsResolve" /\ Len(inv[c].list.elems) = 2
        /\ JoinedLen(inv[c].list.elems) = 3575
        /\ exch[c].n = 1 /\ Done(c)

\* C3: SubmitScan, DnsResolve and DnsReverse called with a nil or empty list
\* fail locally with "empty parameters", return the zero-value result and issue
\* no request, whatever the other arguments and the state of the context.
C3_EmptyList ==
    \A c \in Slots :
        /\ Entered(c)
        /\ inv[c].method \in {"SubmitScan", "DnsResolve", "DnsReverse"}
        /\ ~NonEmptyList(c)
        => /\ Done(c)
           /\ frame[c].err = errors_New("empty parameters")
           /\ frame[c].result = ZeroValue
           /\ frame[c].writes = 0
           /\ exch[c].n = 0

\* a forced SubmitScan of an empty, non-nil list under a cancelled context
C3_Witness ==
    \E c \in Slots :
        /\ Done(c) /\ inv[c].method = "SubmitScan"
        /\ inv[c].list = Slice(<<>>) /\ inv[c].flag /\ ctxDone[c]
        /\ frame[c].err = errors_New("empty parameters")

\* C4: no request is dispatched with an empty substitution slot in its path:
\* a method that substitutes a caller-supplied identifier into a path template
\* (Host among them) fails locally when that identifier is the empty string.
C4_NoEmptyPathSlot ==
    \A c \in Slots :
        Entered(c) /\ (\E i \in 1..Len(inv[c].ids) : inv[c].ids[i] = "") =>
            /\ Done(c)
            /\ frame[c].err.class = "Validation"
            /\ exch[c].n = 0

\* the same, of every method but Host
C4_ExceptHost ==
    \A c \in Slots :
        /\ Entered(c) /\ inv[c].method # "Host"
        /\ \E i \in 1..Len(inv[c].ids) : inv[c].ids[i] = ""
        => Done(c) /\ frame[c].err.class = "Validation" /\ exch[c].n = 0

\* whether the call got a 2xx response whose body matches its result shape
GotMatching2xx(c) ==
    /\ Done(c)
    /\ exch[c].resp.status >= 200 /\ exch[c].resp.status <= 299
    /\ Matches(ParseJSON(exch[c].resp.body).kind, exch[c].dest.shape)

\* C5: for every method, ScanInternet included, a 2xx response whose JSON body
\* matches the method's result shape gives a nil error and a result populated
\* from that body, written exactly once.
C5_SuccessPopulates ==
    \A c \in Slots :
        GotMatching2xx(c) =>
            /\ frame[c].err = NilErr
            /\ frame[c].writes = 1
            /\ frame[c].result.items = ParseJSON(exch[c].resp.body).items

\* the same, of every method but ScanInternet
C5_ExceptScanInternet ==
    \A c \in Slots :
        GotMatching2xx(c) /\ inv[c].method # "ScanInternet" =>
            /\ frame[c].err = NilErr
            /\ frame[c].writes = 1
            /\ frame[c].result.items = ParseJSON(exch[c].resp.body).items

\* whether the call got a response whose status is not 2xx
GotNon2xx(c) ==
    /\ Done(c)
    /\ exch[c].resp # NoResponse
    /\ (exch[c].resp.status < 200 \/ exch[c].resp.status > 299)

\* C6: a dispatched request answered with a non-2xx status fails with an API
\* error that carries the status code; its message is the body's `error`
\* member when the body is an error envelope and the raw body text otherwise
\* (also when the body is a JSON object without `error`); the result is not
\* written.
C6_ApiError ==
    \A c \in Slots :
        GotNon2xx(c) =>
            /\ frame[c].err.class = "API"
            /\ frame[c].err.status = exch[c].resp.status
            /\ frame[c].err.msg = IF exch[c].resp.body = BodyErrorEnvelope
                                  THEN "Invalid API key"
                                  ELSE exch[c].resp.body
            /\ frame[c].writes = 0
            /\ frame[c].result = ZeroValue

\* a 401 with the error envelope gave the API error "Invalid API key"
C6_Witness ==
    \E c \in Slots :
        /\ Done(c) /\ exch[c].resp = [status |-> 401, body |-> BodyErrorEnvelope]
        /\ frame[c].err = APIErr(401, "Invalid API key")

\* C7: a call ends either with a nil error and its result written exactly
\* once, or with an error of class Validation, Transport, API or Decode and
\* its result left at the zero value, never both and never neither; a 2xx
\* response whose body is malformed or does not match the result shape gives
\* a Decode error.
C7_ExactlyOneOutcome ==
    \A c \in Slots :
        /\ Done(c) =>
              \/ /\ frame[c].err = NilErr
                 /\ frame[c].writes = 1
                 /\ frame[c].result # ZeroValue
              \/ /\ frame[c].err.class \in {"Validation", "Transport", "API", "Decode"}
                 /\ frame[c].writes = 0
                 /\ frame[c].result = ZeroValue
        /\ ~Done(c) => frame[c].writes = 0 /\ frame[c].result = ZeroValue
        /\ /\ Done(c)
           /\ exch[c].resp.status >= 200 /\ exch[c].resp.status <= 299
           /\ ~Matches(ParseJSON(exch[c].resp.body).kind, exch[c].dest.shape)
           => frame[c].err.class = "Decode"

\* a 200 with a body that is not JSON gave a Decode error and no result
C7_Witness ==
    \E c \in Slots :
        /\ Done(c) /\ exch[c].resp = [status |-> 200, body |-> BodyHTML]
        /\ frame[c].err.class = "Decode" /\ frame[c].result = ZeroValue

Pairs(seq) == {seq[i] : i \in 1..Len(seq)}

\* C8: every request issued carries the client's API key as a query-string
\* parameter, for every verb and both origins, also when the method passes no
\* query parameters and when a form or JSON body is present; the key is never
\* in the body, and the query parameters the method built are all in the final
\* query string unchanged.
C8_KeyInQuery ==
    \A c \in Slots :
        exch[c].n > 0 =>
            LET req == exch[c].req
            IN  /\ <<"key", client.apiKey>> \in Pairs(req.query)
                /\ \A p \in Pairs(req.body.content) :
                      p[1] # "key" /\ p[2] # client.apiKey
                /\ \A k \in DOMAIN exch[c].queryParams :
                      \A j \in 1..Len(exch[c].queryParams[k]) :
                          <<k, exch[c].queryParams[k][j]>> \in Pairs(req.query)
                /\ SelectSeq(req.query, LAMBDA p : p[1] # "key") =
                      Encode(exch[c].queryParams)
                /\ inv[c].method \in {"SubmitScan", "GetScan", "DeleteAlert", "CreateAlert"}
                      => req.query = << <<"key", client.apiKey>> >>
                /\ inv[c].method = "AddOrgMember" /\ inv[c].flag
                      => <<"notify", "true">> \in Pairs(req.query)

\* a forced SubmitScan went out as a POST with a form body and the key as its
\* only query parameter
C8_Witness ==
    \E c \in Slots :
        /\ exch[c].n = 1 /\ inv[c].method = "SubmitScan" /\ inv[c].flag
        /\ exch[c].req.verb = "POST" /\ exch[c].req.body.present
        /\ exch[c].req.query = << <<"key", client.apiKey>> >>

\* two finished calls with the same invocation, the same response and the same
\* state of their contexts have the same result and the same error
SameInputsSameOutcome ==
    \A c, d \in Slots :
        /\ Done(c) /\ Done(d)
        /\ inv[c] = inv[d] /\ exch[c].resp = exch[d].resp /\ ctxDone[c] = ctxDone[d]
        => frame[c].result = frame[d].result /\ frame[c].err = frame[d].err

\* a step of one call leaves every other call, the package's variables and
\* the client as they were
NoInterference ==
    /\ pkg' = pkg
    /\ client' = client
    /\ \A c, d \in Slots :
          c # d /\ (frame'[c] # frame[c] \/ exch'[c] # exch[c] \/ inv'[c] # inv[c])
          => /\ frame'[d] = frame[d]
             /\ exch'[d] = exch[d]
             /\ inv'[d] = inv[d]
             /\ ctxDone'[d] = ctxDone[d]

\* C9: under any interleaving of concurrent calls on one Client a call's
\* outcome is that of the call run alone with the same inputs and the same
\* response: no step of a call writes another call's frame or exchange, the
\* package's variables and the client never change, and equal inputs give
\* equal outcomes.
C9_ConcurrentCallsIndependent ==
    /\ [](SameInputsSameOutcome)
    /\ [][NoInterference]_vars

\* one DnsResolve has its result while another is still in flight
C9_Witness ==
    /\ InFlight(1) /\ inv[1].method = "DnsResolve"
    /\ Done(2) /\ inv[2].method = "DnsResolve"
    /\ frame[2].writes = 1 /\ frame[1].result = ZeroValue

\* C10: a call whose context is cancelled before its HTTP exchange completes
\* eventually returns, with a transport error that wraps the cancellation; it
\* does not return a nil error and does not write the result.
C10_CancellationReturns ==
    /\ [](\A c \in Slots :
            Done(c) /\ ctxDone[c] /\ exch[c].n > 0 =>
                /\ frame[c].err = TransportErr("context canceled")
                /\ frame[c].writes = 0
                /\ frame[c].result = ZeroValue)
    /\ \A c \in CallSlots :
          (InFlight(c) /\ ctxDone[c]) ~>
              (Done(c) /\ frame[c].err = TransportErr("context canceled"))

\* a call cancelled in flight came back with the cancellation error
C10_Witness ==
    \E c \in Slots :
        /\ Done(c) /\ ctxDone[c] /\ exch[c].n = 1
        /\ frame[c].err = TransportErr("context canceled")

\* what a finished call returns, told from its own exchange alone: the request
\* it issued (if any), the response or transport event, and its own context
OutcomeFromOwnCall(c) ==
    LET resp == exch[c].resp
        doc == ParseJSON(resp.body)
    IN  IF exch[c].n = 0
        THEN frame[c].err.class = "Validation" /\ frame[c].result = ZeroValue
        ELSE IF resp = NoResponse
        THEN /\ frame[c].err =
                   TransportErr(IF ctxDone[c] THEN "context canceled" ELSE "connection refused")
             /\ frame[c].result = ZeroValue
        ELSE IF resp.status < 200 \/ resp.status > 299
        THEN /\ frame[c].err.class = "API" /\ frame[c].err.status = resp.status
             /\ frame[c].result = ZeroValue
        ELSE IF exch[c].dest.ptr /\ Matches(doc.kind, exch[c].dest.shape)
        THEN frame[c].err = NilErr /\ frame[c].result.items = doc.items
        ELSE frame[c].err.class = "Decode" /\ frame[c].result = ZeroValue

\* C11: after any sequence of calls on one Client, whichever of them failed
\* with a validation, transport, API or decode error, the client's credential
\* and origins are what they were at construction and the client is usable:
\* a next call can be made, its request carries the credential to one of the
\* two origins, and its outcome is told by its own arguments and the response
\* to it, not by the earlier calls.
C11_ClientUnchangedAndUsable ==
    /\ client = [apiKey |-> "SECRET",
                 origins |-> [main |-> "https://api.shodan.io",
                              exploits |-> "https://exploits.shodan.io/api"]]
    /\ \A c \in Slots :
          /\ frame[c].pc = "idle" =>
                /\ frame[c] = FreshFrame /\ exch[c] = FreshExchange
                /\ ENABLED Call(c)
          /\ exch[c].n > 0 =>
                /\ <<"key", "SECRET">> \in Pairs(exch[c].req.query)
                /\ exch[c].req.origin \in
                      {"https://api.shodan.io", "https://exploits.shodan.io/api"}
          /\ Done(c) => OutcomeFromOwnCall(c)

\* a call succeeded after earlier calls had failed in each of the four ways
C11_Witness ==
    \E c \in Slots :
        /\ Done(c) /\ frame[c].err = NilErr /\ frame[c].writes = 1
        /\ {"Validation", "Transport", "API", "Decode"} \subseteq earlier

====
